---- MODULE Spec2Model ----
(***************************************************************************)
(* A model of js/generator.js: the seeded pseudo-random generator, the     *)
(* growth model (lines, seeds, ticks), the collision detector and the      *)
(* render loop of the page.                                                *)
(*                                                                         *)
(* Numbers.  A 32-bit word is a pair <<hi, lo>> of 16-bit halves, so that  *)
(* no intermediate value leaves the range of TLC's integers.  A            *)
(* draw of the generator is the 32-bit word x that the code divides by     *)
(* 2^32; comparisons  rnd() < p  are made on x exactly.  The seed of a     *)
(* generator is a double holding an integer: the model keeps all of its    *)
(* digits and rounds it as the addition of doubles does.  The options      *)
(* pBifurcation and expiryThreshold are the doubles that buildRandomConfig *)
(* computes, kept digit for digit.                                         *)
(*                                                                         *)
(* Geometry.  The code computes with doubles; the model keeps an angle     *)
(* exactly, as the drawn word in 2^32ths of a turn, and a coordinate to    *)
(* the nearest 1/Unit of a pixel.  A point of the model lies within Err    *)
(* units of the point the code holds.  Where a test of the code (the sign  *)
(* of an orientation, a comparison of coordinates) is decided by less than *)
(* that error, the model does not know how the code decides: the operator  *)
(* that models the test yields the set of the results that are possible,   *)
(* and a tick of the model has one outcome for each way of deciding.  The  *)
(* lines of one tree meet on a lattice (their directions differ by quarter *)
(* turns and their steps have length 1), so that in the code such tests    *)
(* on them are decided by the last bits of Math.sin and Math.cos.  A test  *)
(* repeated on the same operands is decided as it was before (rounding).   *)
(***************************************************************************)
EXTENDS Integers, Sequences, FiniteSets, TLC

\* ------------------------------------------------------------------------
\* 32-bit arithmetic (the semantics of ^, |, >>>, + and Math.imul on int32)
\* ------------------------------------------------------------------------

Half == 256 * 256

\* F applied to the value v: names a value that is used several times
With(v, F(_)) == F(v)

RECURSIVE BitXor(_, _)
BitXor(a, b) ==
    IF a = 0 THEN b
    ELSE IF b = 0 THEN a
    ELSE 2 * BitXor(a \div 2, b \div 2) + ((a + b) % 2)

RECURSIVE BitOr(_, _)
BitOr(a, b) ==
    IF a = 0 THEN b
    ELSE IF b = 0 THEN a
    ELSE 2 * BitOr(a \div 2, b \div 2) + (IF (a % 2) + (b % 2) > 0 THEN 1 ELSE 0)

RECURSIVE Pow2(_)
Pow2(k) == IF k = 0 THEN 1 ELSE 2 * Pow2(k - 1)

Xor32(a, b) == <<BitXor(a[1], b[1]), BitXor(a[2], b[2])>>

Or32(a, b) == <<BitOr(a[1], b[1]), BitOr(a[2], b[2])>>

Add32(a, b) ==
    LET l == a[2] + b[2]
        h == a[1] + b[1] + (l \div Half)
    IN  <<h % Half, l % Half>>

\* t >>> k for 0 < k < 16
Shr32(a, k) ==
    <<a[1] \div Pow2(k), (a[1] % Pow2(k)) * Pow2(16 - k) + (a[2] \div Pow2(k))>>

\* the low 16 bits of x * y, for 16-bit x and y
MulLow16(x, y) ==
    (x * (y % 256) + ((x * (y \div 256)) % 256) * 256) % Half

\* the full 32-bit product of 16-bit x and y
Mul16(x, y) ==
    LET p0 == x * (y % 256)
        p1 == x * (y \div 256)
    IN  Add32(<<p0 \div Half, p0 % Half>>, <<p1 \div 256, (p1 % 256) * 256>>)

\* Math.imul: the low 32 bits of a * b
Imul(a, b) ==
    With(Mul16(a[2], b[2]), LAMBDA low :
        <<(low[1] + ((MulLow16(a[1], b[2]) + MulLow16(a[2], b[1])) % Half)) % Half, low[2]>>)

\* an integer 0 <= n < 2^31 as a 32-bit word
Word(n) == <<n \div Half, n % Half>>

\* ------------------------------------------------------------------------
\* The seed of a generator: a double that holds an integer n >= 0, kept as
\* the digits of n to the base 2^16, most significant first, two digits at
\* least and no leading zero beyond them.  A seed below 2^32 is the word
\* Word(n).
\* ------------------------------------------------------------------------

\* the digits of a but the last one
Front(a) == SubSeq(a, 1, Len(a) - 1)

\* the digits of a + b + carry
RECURSIVE AddDigits(_, _, _)
AddDigits(a, b, carry) ==
    IF a = <<>> /\ b = <<>> THEN (IF carry = 0 THEN <<>> ELSE <<carry>>)
    ELSE With((IF a = <<>> THEN 0 ELSE a[Len(a)]) + (IF b = <<>> THEN 0 ELSE b[Len(b)]) + carry,
              LAMBDA s :
                  Append(AddDigits(IF a = <<>> THEN a ELSE Front(a),
                                   IF b = <<>> THEN b ELSE Front(b), s \div Half),
                         s % Half))

RECURSIVE Trim(_)
Trim(a) == IF Len(a) > 2 /\ a[1] = 0 THEN Trim(Tail(a)) ELSE a

\* the number of bits of n
RECURSIVE Bits(_)
Bits(n) == IF n = 0 THEN 0 ELSE 1 + Bits(n \div 2)

\* the number of bits of a beyond the 53 that a double keeps
Excess(a) == 16 * (Len(a) - 1) + Bits(a[1]) - 53

Zeros(j) == [i \in 1..j |-> 0]

\* The double nearest to the integer a, ties to the even one: the last
\* Excess(a) bits are dropped, j whole digits and b bits of digit i.
RoundToDouble(a) ==
    IF Excess(a) <= 0 THEN a
    ELSE LET j    == Excess(a) \div 16
             b    == Excess(a) % 16
             i    == Len(a) - j
             low  == a[i] % Pow2(b)
             odd  == (a[i] \div Pow2(b)) % 2 = 1
             half == IF b > 0 THEN low \div Pow2(b - 1) = 1 ELSE a[i + 1] >= 32768
             rest == IF b > 0
                     THEN low % Pow2(b - 1) # 0 \/ \E n \in (i + 1)..Len(a) : a[n] # 0
                     ELSE a[i + 1] % 32768 # 0 \/ \E n \in (i + 2)..Len(a) : a[n] # 0
             down == SubSeq(a, 1, i - 1) \o <<a[i] - low>> \o Zeros(j)
         IN  IF half /\ (rest \/ odd)
             THEN Trim(AddDigits(down, <<Pow2(b)>> \o Zeros(j), 0))
             ELSE down

\* seed + c in doubles, for a 32-bit word c
AddDouble(seed, c) == RoundToDouble(Trim(AddDigits(seed, c, 0)))

\* ToInt32: the low 32 bits
ToInt32(seed) == <<seed[Len(seed) - 1], seed[Len(seed)]>>

\* ------------------------------------------------------------------------
\* randomFromSeed
\* ------------------------------------------------------------------------

\* One call of mulberry32 on the closure's seed: the new seed and the 32-bit
\* word x of the result x / 4294967296.
mulberry32(seed) ==
    \* var t = seed += 0x6D2B79F5: the sum is a double, t its low 32 bits
    With(AddDouble(seed, <<27947, 31221>>), LAMBDA s1 :
    With(ToInt32(s1), LAMBDA t0 :
    \* t = Math.imul(t ^ t >>> 15, t | 1)
    With(Imul(Xor32(t0, Shr32(t0, 15)), Or32(t0, <<0, 1>>)), LAMBDA t1 :
    \* t ^= t + Math.imul(t ^ t >>> 7, t | 61)
    With(Xor32(t1, Add32(t1, Imul(Xor32(t1, Shr32(t1, 7)), Or32(t1, <<0, 61>>)))), LAMBDA t2 :
    \* (t ^ t >>> 14) >>> 0
        [seed |-> s1, x |-> Xor32(t2, Shr32(t2, 14))]))))


\* The value u * (max - min) + min of a ranged draw, for integers min and
\* max and u = x / 2^32: its floor, and its fractional part as a 32-bit word.
Scaled(x, lo, hi) ==
    LET d  == hi - lo
        t0 == d * x[2]
        t1 == d * x[1] + (t0 \div Half)
    IN  [int |-> lo + (t1 \div Half), frac |-> <<t1 % Half, t0 % Half>>]

\* as rnd, but with the smaller argument as min and the larger as max
rndOrdered(x, a, b) ==
    Scaled(x, IF a <= b THEN a ELSE b, IF a <= b THEN b ELSE a)

\* function(a=1, b=0): min = b && a, max = b || a
rnd(x, a, b) ==
    LET min == IF b # 0 THEN a ELSE b
        max == IF b # 0 THEN b ELSE a
    IN  Scaled(x, min, max)

\* ------------------------------------------------------------------------
\* Doubles between 0 and 1.  A double d of that range is kept exactly: a
\* constant of the code as the digits of d * 2^64, a computed value as the
\* digits of d * 2^96 (base 2^16, most significant first), so that the
\* product of a draw x / 2^32 and a constant is the product of the digits.
\* Every operation rounds as the code's does, to 53 significant bits.
\* ------------------------------------------------------------------------

\* the digits of a * d, for a 16-bit d
MulByDigit(a, d) ==
    AddDigits([i \in 1..Len(a) |-> Mul16(a[i], d)[1]] \o <<0>>,
              [i \in 1..Len(a) |-> Mul16(a[i], d)[2]], 0)

\* the digits of a * b
RECURSIVE MulDigits(_, _)
MulDigits(a, b) ==
    IF b = <<>> THEN <<>>
    ELSE AddDigits(MulDigits(a, Front(b)) \o <<0>>, MulByDigit(a, b[Len(b)]), 0)

\* the digits of a - b - borrow, for a >= b + borrow of the same length
RECURSIVE SubDigits(_, _, _)
SubDigits(a, b, borrow) ==
    IF a = <<>> THEN <<>>
    ELSE With(a[Len(a)] - b[Len(b)] - borrow, LAMBDA d :
             Append(SubDigits(Front(a), Front(b), IF d < 0 THEN 1 ELSE 0),
                    IF d < 0 THEN d + Half ELSE d))

\* a < b
Less(a, b) ==
    With(Trim(a), LAMBDA ta : With(Trim(b), LAMBDA tb :
        IF Len(ta) # Len(tb) THEN Len(ta) < Len(tb)
        ELSE \E i \in 1..Len(ta) : ta[i] < tb[i] /\ \A j \in 1..(i - 1) : ta[j] = tb[j]))

\* the doubles that the code writes as 0, 0.001, 0.02, 0.05 and 0.5, times
\* 2^64
Zero == <<0, 0, 0, 0>>
Thousandth == <<65, 35127, 19398, 42992>>
Fiftieth == <<1310, 47185, 60293, 7872>>
Twentieth == <<3276, 52428, 52428, 52480>>
OneHalf == <<32768, 0, 0, 0>>

\* a constant d * 2^64 as d * 2^96
Widened(c) == c \o <<0, 0>>

\* function(a=1, b=0) for doubles 0 <= a, b < 1 (times 2^64): min = b && a,
\* max = b || a, and mulberry32() * (max - min) + min, times 2^96
Probability(x, a, b) ==
    LET min == IF b # Zero THEN a ELSE b
        max == IF b # Zero THEN b ELSE a
    IN  RoundToDouble(Trim(AddDigits(
            RoundToDouble(Trim(MulDigits(x, RoundToDouble(Trim(SubDigits(max, min, 0)))))),
            Widened(min), 0)))

\* generation * expiryThreshold
Expiry(generation, expiryThreshold) ==
    RoundToDouble(Trim(MulByDigit(expiryThreshold, generation)))

\* rnd() < p, for a double p times 2^96: the draw is x / 2^32
Below(x, p) == Less(x \o <<0, 0, 0, 0>>, p)

\* Math.round of a value [int, frac]: the nearest integer, a half upwards
MathRound(v) == v.int + (IF v.frac[1] >= 32768 THEN 1 ELSE 0)

\* the results of n calls of mulberry32, one after the other
RECURSIVE Draws(_, _)
Draws(seed, n) ==
    IF n = 0 THEN <<>>
    ELSE With(mulberry32(seed), LAMBDA d : <<d>> \o Draws(d.seed, n - 1))

\* rnd() > 0.5 for the draw x / 2^32
AboveOneHalf(x) == x[1] > OneHalf[1] \/ (x[1] = OneHalf[1] /\ x[2] > 0)

\* buildRandomConfig(rnd): twelve draws, of which the second, the third and
\* the tenth set the options that the growth model reads and the twelfth
\* the option pencilHorizontal, on which the draws of applyPencil() depend;
\* the others set options of the drawing.  With the configuration, the
\* seed of the generator after the draws.
buildRandomConfig(seed) ==
    With(Draws(seed, 12), LAMBDA d :
        [config |-> [seedCount        |-> MathRound(rnd(d[2].x, 1, 10)),
                     pBifurcation     |-> Probability(d[3].x, Fiftieth, Twentieth),
                     expiryThreshold  |-> Probability(d[10].x, Thousandth, Zero),
                     pencilHorizontal |-> AboveOneHalf(d[12].x)],
         seed   |-> d[12].seed])

\* ------------------------------------------------------------------------
\* Geometry: lengths in 1/Unit of a pixel, angles in 2^32ths of a turn
\* ------------------------------------------------------------------------

growthRate == 1

\* the units in a pixel
Unit == 2048

\* the distance, in units, within which a point of the model lies from the
\* point the code holds: half a unit for the rounding of an origin and at
\* most 2/3 of a unit for each step that the point lies from the origin
\* of its root, along either direction of the tree (steps back and forth
\* cancel), which the canvas keeps below CanvasWidth + CanvasHeight
Err == 16

\* a / b to the nearest integer, for a >= 0
RoundDiv(a, b) == (a + b \div 2) \div b

Abs(n) == IF n < 0 THEN -n ELSE n

\* An angle is a pair <<hi, lo>> that stands for hi * 65536 + lo 2^32ths of
\* a turn; hi is any integer, as the code does not reduce an angle to one
\* turn.  rnd(0, Math.PI * 2) is u * 2 pi for the draw u = x / 2^32: in
\* 2^32ths of a turn it is the word x itself.
Angle(x) == x

\* Math.PI / 2: a quarter turn
HalfPi == <<16384, 0>>

\* angle + Math.PI / 2 * k, for an integer k
Turned(angle, k) == <<angle[1] + k * HalfPi[1], angle[2]>>

\* an angle to the nearest 65536th of a turn, reduced to one turn
Turns(angle) == (angle[1] + (IF angle[2] >= 32768 THEN 1 ELSE 0)) % Half

\* The angle of r 65536ths of a turn in radians, and the series of the sine
\* and of the cosine of x up to x^7 and x^8: all numbers in 32768ths.
Radians(r) == RoundDiv(r * 51472, 16384)

Times(a, b) == RoundDiv(a * b, 32768)

SinSeries(x) ==
    With(Times(x, x), LAMBDA x2 :
        Times(x, 32768 - RoundDiv(Times(x2,
                 32768 - RoundDiv(Times(x2,
                 32768 - RoundDiv(x2, 42)), 20)), 6)))

CosSeries(x) ==
    With(Times(x, x), LAMBDA x2 :
        32768 - RoundDiv(Times(x2,
        32768 - RoundDiv(Times(x2,
        32768 - RoundDiv(Times(x2,
        32768 - RoundDiv(x2, 56)), 30)), 12)), 2))

\* the sine of r 65536ths of a turn, 0 <= r <= 16384 (a quarter turn)
SinQuarter(r) ==
    IF r <= 8192 THEN SinSeries(Radians(r)) ELSE CosSeries(Radians(16384 - r))

\* the sine of a 65536ths of a turn, in 32768ths
SinTurns(a) ==
    LET q == a \div 16384
        r == a % 16384
    IN  CASE q = 0 -> SinQuarter(r)
          [] q = 1 -> SinQuarter(16384 - r)
          [] q = 2 -> -SinQuarter(r)
          [] OTHER -> -SinQuarter(16384 - r)

\* Math.sin(angle) and Math.cos(angle), in units, to the nearest unit
Sin(angle) ==
    With(SinTurns(Turns(angle)), LAMBDA v :
        IF v >= 0 THEN RoundDiv(v * Unit, 32768) ELSE -RoundDiv((-v) * Unit, 32768))

Cos(angle) == Sin(Turned(angle, 1))

\* a drawn coordinate in units, to the nearest unit
Fixed(v) == Unit * v.int + RoundDiv(Unit * v.frac[1] + ((Unit * v.frac[2]) \div Half), Half)

\* the canvas of the page, in pixels
CanvasWidth == 10
CanvasHeight == 8

\* view.canvas.isVisible(x, y): the point lies on the canvas
isVisible(x, y) ==
    /\ 0 <= x /\ x <= Unit * CanvasWidth
    /\ 0 <= y /\ y <= Unit * CanvasHeight

\* ------------------------------------------------------------------------
\* buildCollisionDetector.  Each test takes the error err of the
\* coordinates it is handed (0 for coordinates that are exact) and yields
\* the set of the results that the code can come to.
\* ------------------------------------------------------------------------

CLOCKWISE == 1
ANTICLOCKWISE == 2
COLINEAR == 0

Max(a, b) == IF a >= b THEN a ELSE b
Min(a, b) == IF a <= b THEN a ELSE b

lineOffscreen(line, err) ==
    {~isVisible(line.p1[1] + dx, line.p1[2] + dy) : dx \in {-err, 0, err}, dy \in {-err, 0, err}}

\* val is a sum of two products of differences of coordinates: with each
\* difference out by 2 * err at most, val is out by less than
\* 2 * err * (|q - p| + |r - q| + 2 * err), the lengths taken coordinate by
\* coordinate.
orientation(p, q, r, err) ==
    With(((q[2] - p[2]) * (r[1] - q[1])) - ((q[1] - p[1]) * (r[2] - q[2])), LAMBDA val :
    With(2 * err * (Abs(q[1] - p[1]) + Abs(q[2] - p[2])
                      + Abs(r[1] - q[1]) + Abs(r[2] - q[2]) + 2 * err), LAMBDA tol :
        IF val > tol THEN {CLOCKWISE}
        ELSE IF val < -tol THEN {ANTICLOCKWISE}
        ELSE IF err = 0 THEN {COLINEAR}
        ELSE {CLOCKWISE, ANTICLOCKWISE, COLINEAR}))

\* a <= b for coordinates known within err
Leq(a, b, err) == {a <= b + d : d \in {-2 * err, 2 * err}}

\* as onSegment, but comparing the x coordinates only
onSegmentInX(p, q, r, err) ==
    {a /\ b : a \in Leq(q[1], Max(p[1], r[1]), err),
              b \in Leq(Min(p[1], r[1]), q[1], err)}

onSegment(p, q, r, err) ==
    {a /\ b /\ c /\ d : a \in Leq(q[1], Max(p[1], r[1]), err),
                        b \in Leq(Min(p[1], r[1]), q[1], err),
                        c \in Leq(q[2], Max(p[2], r[2]), err),
                        d \in Leq(Min(p[2], r[2]), q[2], err)}

\* the result of linesIntersect from the four orientations and from the
\* four results of onSegment
Intersects(o1, o2, o3, o4, s1, s2, s3, s4) ==
    IF (o1 # o2) /\ (o3 # o4) THEN TRUE
    ELSE IF (o1 = COLINEAR) /\ s1 THEN TRUE
    ELSE IF (o2 = COLINEAR) /\ s2 THEN TRUE
    ELSE IF (o3 = COLINEAR) /\ s3 THEN TRUE
    ELSE IF (o4 = COLINEAR) /\ s4 THEN TRUE
    ELSE FALSE

linesIntersect(l1, l2, err) ==
    {Intersects(o1, o2, o3, o4, s1, s2, s3, s4) :
        o1 \in orientation(l1.p0, l1.p1, l2.p0, err),
        o2 \in orientation(l1.p0, l1.p1, l2.p1, err),
        o3 \in orientation(l2.p0, l2.p1, l1.p0, err),
        o4 \in orientation(l2.p0, l2.p1, l1.p1, err),
        s1 \in onSegment(l1.p0, l2.p0, l1.p1, err),
        s2 \in onSegment(l1.p0, l2.p1, l1.p1, err),
        s3 \in onSegment(l2.p0, l1.p0, l2.p1, err),
        s4 \in onSegment(l2.p0, l1.p1, l2.p1, err)}

\* ------------------------------------------------------------------------
\* The forest.  A line is named <<s, i>>: the i-th line of the s-th seed.
\* A line's parent is the index of its parent in the same seed's lines,
\* 0 for a root.
\* ------------------------------------------------------------------------

LineAt(seeds, id) == seeds[id[1]].lines[id[2]]

\* line1.parent === line2
IsParentOf(seeds, id2, id1) ==
    /\ id1[1] = id2[1]
    /\ LineAt(seeds, id1).parent = id2[2]

\* Array.prototype.some over the lines of seed s from index i on: the lines
\* the callback was called on, and whether it returned a truthy value.
RECURSIVE someLine(_, _, _, _)
someLine(seeds, s, i, fn) ==
    IF i > Len(seeds[s].lines) THEN [visited |-> <<>>, found |-> FALSE]
    ELSE IF fn[<<s, i>>] THEN [visited |-> <<<<s, i>>>>, found |-> TRUE]
    ELSE With(someLine(seeds, s, i + 1, fn), LAMBDA rest :
             [visited |-> <<<<s, i>>>> \o rest.visited, found |-> rest.found])

RECURSIVE someSeed(_, _, _)
someSeed(seeds, s, fn) ==
    IF s > Len(seeds) THEN [visited |-> <<>>, found |-> FALSE]
    ELSE With(someLine(seeds, s, 1, fn), LAMBDA here :
             IF here.found THEN here
             ELSE With(someSeed(seeds, s + 1, fn), LAMBDA rest :
                      [visited |-> here.visited \o rest.visited, found |-> rest.found]))

\* as forEachLineUntilTrue, but going on after a truthy result
forEachLine(seeds, fn) ==
    [visited |-> someSeed(seeds, 1, [id \in DOMAIN fn |-> FALSE]).visited,
     returns |-> "undefined"]

\* model.forEachLineUntilTrue(fn): fn maps each line's name to whether the
\* visitor returns a truthy value on it.  The result of the outer some() is
\* dropped: the method has no return statement.
forEachLineUntilTrue(seeds, fn) ==
    [visited |-> someSeed(seeds, 1, fn).visited, returns |-> "undefined"]

\* the names of all lines of the forest
Ids(seeds) ==
    UNION {{<<s, i>> : i \in 1..Len(seeds[s].lines)} : s \in 1..Len(seeds)}

\* The tests decided so far whose result the model does not know: rounding
\* is a set of records [q |-> the lines tested, a |-> the result].  A test
\* that can end either way ends as it did before on the same lines.
Decided(rounding, q, results) ==
    IF Cardinality(results) = 1 THEN results
    ELSE With({m \in rounding : m.q = q}, LAMBDA before :
             IF before = {} THEN results ELSE {m.a : m \in before})

\* the results in as, with the one taken, a, written down when there were
\* several
Noted(rounding, q, as, a) ==
    IF Cardinality(as) = 1 THEN rounding ELSE rounding \cup {[q |-> q, a |-> a]}

\* the lines that linesIntersect(line1, line2) tests, as they are then
Ends(seeds, id1, id2) ==
    <<id1, id2, LineAt(seeds, id1).p0, LineAt(seeds, id1).p1,
      LineAt(seeds, id2).p0, LineAt(seeds, id2).p1>>

\* the line that lineOffscreen(line) tests, as it is then
Tip(seeds, id1) == <<id1, LineAt(seeds, id1).p1>>

\* as collisionVisitor, but without the test line1.parent === line2
collisionVisitorOfParent(seeds, id1, rounding) ==
    [id2 \in Ids(seeds) |->
        IF id1 = id2 \/ IsParentOf(seeds, id1, id2)
        THEN {FALSE}
        ELSE Decided(rounding, Ends(seeds, id1, id2),
                     linesIntersect(LineAt(seeds, id1), LineAt(seeds, id2), Err))]

\* as collisionVisitor, but passing over the children that no tick has
\* visited yet
collisionVisitorPastNewChildren(seeds, id1, rounding) ==
    [id2 \in Ids(seeds) |->
        IF \/ id1 = id2 \/ IsParentOf(seeds, id2, id1) \/ IsParentOf(seeds, id1, id2)
           \/ (LineAt(seeds, id2).parent # 0 /\ LineAt(seeds, id2).visits = 0)
        THEN {FALSE}
        ELSE Decided(rounding, Ends(seeds, id1, id2),
                     linesIntersect(LineAt(seeds, id1), LineAt(seeds, id2), Err))]

\* The visitor of checkForCollisions: undefined (falsy) on line1 itself, on
\* its parent and on its children, linesIntersect(line1, line2) otherwise;
\* for each line2 the results it can return.
collisionVisitor(seeds, id1, rounding) ==
    [id2 \in Ids(seeds) |->
        IF id1 = id2 \/ IsParentOf(seeds, id2, id1) \/ IsParentOf(seeds, id1, id2)
        THEN {FALSE}
        ELSE Decided(rounding, Ends(seeds, id1, id2),
                     linesIntersect(LineAt(seeds, id1), LineAt(seeds, id2), Err))]

\* the visitors that return, on each line, one of the results in fn
Resolutions(fn) ==
    With({id \in DOMAIN fn : Cardinality(fn[id]) > 1}, LAMBDA open :
        {[id \in DOMAIN fn |-> IF id \in open THEN id \in yes ELSE TRUE \in fn[id]] :
            yes \in SUBSET open})

\* the scan of forEachLineUntilTrue with the visitor f, one of the
\* resolutions of fn: foundCollision holds the visitor's last result, which
\* is true only on the line that ended the scan
Scanned(seeds, id1, fn, f, rounding) ==
    With(forEachLineUntilTrue(seeds, f).visited, LAMBDA scan :
        [found    |-> scan # <<>> /\ f[scan[Len(scan)]],
         hit      |-> IF scan # <<>> /\ f[scan[Len(scan)]] THEN scan[Len(scan)] ELSE <<0, 0>>,
         rounding |-> rounding \cup
                        {[q |-> Ends(seeds, id1, scan[k]), a |-> f[scan[k]]] :
                            k \in {n \in 1..Len(scan) : Cardinality(fn[scan[n]]) > 1}}])

\* the result of checkForCollisions when the line is found off the canvas
Offscreen(rounding) == [found |-> TRUE, hit |-> <<0, 0>>, rounding |-> rounding]

\* as checkForCollisions, but finding nothing
checkNothing(seeds, id1, rounding) ==
    {[found |-> FALSE, hit |-> <<0, 0>>, rounding |-> rounding]}

\* as checkForCollisions, but returning after the test of the canvas
checkOffscreenOnly(seeds, id1, rounding) ==
    With(Decided(rounding, Tip(seeds, id1), lineOffscreen(LineAt(seeds, id1), Err)),
         LAMBDA off :
            {IF o THEN Offscreen(Noted(rounding, Tip(seeds, id1), off, TRUE))
                  ELSE [found |-> FALSE, hit |-> <<0, 0>>,
                        rounding |-> Noted(rounding, Tip(seeds, id1), off, FALSE)] :
                o \in off})

\* checkForCollisions(line1, forEachLineUntilTrue): the results it can come
\* to, each with the line that ended the scan (<<0, 0>> when there is none)
\* and with the tests it decided.
checkForCollisions(seeds, id1, rounding) ==
    With(Decided(rounding, Tip(seeds, id1), lineOffscreen(LineAt(seeds, id1), Err)),
         LAMBDA off :
    With(collisionVisitor(seeds, id1, rounding), LAMBDA fn :
        (IF TRUE \in off
         THEN {Offscreen(Noted(rounding, Tip(seeds, id1), off, TRUE))}
         ELSE {})
        \cup
        (IF FALSE \in off
         THEN {Scanned(seeds, id1, fn, f,
                       Noted(rounding, Tip(seeds, id1), off, FALSE)) :
                  f \in Resolutions(fn)}
         ELSE {})))

\* ------------------------------------------------------------------------
\* buildModel.  The state of one model is a record R:
\*   config           the configuration it was built with
\*   seed             the state of its generator (the closure of rnd)
\*   rounding         the tests decided so far (see Decided)
\*   seeds, defined   the forest, and whether seeds has been assigned
\*   activeLineCount
\* and, kept for the properties only: generateCalls and tick (the calls of
\* generate() and grow() that returned), idle (the calls of grow() made while
\* isActive() was false), fault (the exception the last call
\* threw), drawn (the words the last call drew), log (what the last grow()
\* did to each line it visited, in order, with the line that a reported
\* collision was with) and traversal (the last call of
\* forEachLineUntilTrue from outside).  A line's visits counts the ticks
\* that advanced it.  A method whose result hangs on a test that can end
\* either way yields the set of its results.
\* ------------------------------------------------------------------------

\* as lineGrow, but with generations counted from one in the expiry test
lineGrowCountingFromOne(line, R) ==
    With(mulberry32(R.seed), LAMBDA d1 :
    With(mulberry32(d1.seed), LAMBDA d2 :
        [line |-> [line EXCEPT
                     !.p1 = <<@[1] + Sin(line.angle) * growthRate,
                              @[2] + Cos(line.angle) * growthRate>>,
                     !.steps = @ + 1,
                     !.split = Below(d1.x, R.config.pBifurcation),
                     !.expired = IF Below(d2.x, Expiry(line.generation + 1, R.config.expiryThreshold))
                                 THEN TRUE ELSE @],
         R |-> [R EXCEPT !.seed = d2.seed, !.drawn = @ \o <<d1.x, d2.x>>]]))

\* line.grow()
lineGrow(line, R) ==
    With(mulberry32(R.seed), LAMBDA d1 :
    With(mulberry32(d1.seed), LAMBDA d2 :
        [line |-> [line EXCEPT
                     !.p1 = <<@[1] + Sin(line.angle) * growthRate,
                              @[2] + Cos(line.angle) * growthRate>>,
                     !.steps = @ + 1,
                     !.split = Below(d1.x, R.config.pBifurcation),
                     !.expired = IF Below(d2.x, Expiry(line.generation, R.config.expiryThreshold))
                                 THEN TRUE ELSE @],
         R |-> [R EXCEPT !.seed = d2.seed, !.drawn = @ \o <<d1.x, d2.x>>]]))

\* as clip, but leaving the tip where it is
clipNothing(line) == line

\* line.clip()
clip(line) ==
    [line EXCEPT !.p1 = <<@[1] - Sin(line.angle) * growthRate,
                          @[2] - Cos(line.angle) * growthRate>>]

\* as buildLine, but without the call of line.grow() that ends it
buildLineUngrown(R, lines, p0, angle, parent) ==
    With(mulberry32(R.seed), LAMBDA d0 :
        [line |-> [p0 |-> p0, p1 |-> p0, angle |-> angle,
                   generation |-> IF parent # 0 THEN lines[parent].generation + 1 ELSE 0,
                   parent |-> parent, active |-> TRUE, split |-> FALSE,
                   expired |-> FALSE, steps |-> 0, rnd |-> d0.x, visits |-> 0],
         R |-> [R EXCEPT !.seed = d0.seed,
                         !.drawn = Append(@, d0.x),
                         !.activeLineCount = @ + 1]])

\* buildLine(p0, angle, parent): lines holds the parent when there is one
buildLine(R, lines, p0, angle, parent) ==
    With(mulberry32(R.seed), LAMBDA d0 :
        lineGrow([p0 |-> p0, p1 |-> p0, angle |-> angle,
                  generation |-> IF parent # 0 THEN lines[parent].generation + 1 ELSE 0,
                  parent |-> parent, active |-> TRUE, split |-> FALSE,
                  expired |-> FALSE, steps |-> 0, rnd |-> d0.x, visits |-> 0],
                 [R EXCEPT !.seed = d0.seed,
                           !.drawn = Append(@, d0.x),
                           !.activeLineCount = @ + 1]))

buildSeed(R) ==
    With(mulberry32(R.seed), LAMBDA dA :
    With(mulberry32(dA.seed), LAMBDA dX :
    With(mulberry32(dX.seed), LAMBDA dY :
    With(buildLine([R EXCEPT !.seed = dY.seed, !.drawn = @ \o <<dA.x, dX.x, dY.x>>],
                   <<>>,
                   <<Fixed(rnd(dX.x, 0, CanvasWidth)), Fixed(rnd(dY.x, 0, CanvasHeight))>>,
                   Angle(dA.x), 0), LAMBDA root :
        [seed |-> [angle |-> Angle(dA.x), lines |-> <<root.line>>], R |-> root.R]))))

\* Array(n).fill().map(buildSeed)
RECURSIVE buildSeeds(_, _)
buildSeeds(R, n) ==
    IF n = 0 THEN [seeds |-> <<>>, R |-> R]
    ELSE With(buildSeed(R), LAMBDA first :
         With(buildSeeds(first.R, n - 1), LAMBDA rest :
             [seeds |-> <<first.seed>> \o rest.seeds, R |-> rest.R]))

\* the start of a call: nothing thrown, drawn or logged yet
Call(R) == [R EXCEPT !.fault = "none", !.drawn = <<>>, !.log = <<>>,
                     !.traversal = [visitor |-> "none", visited |-> <<>>,
                                    returns |-> "undefined"]]

\* model.generate(): Array(n) throws a RangeError for a negative n
generate(R) ==
    IF R.config.seedCount < 0 THEN [Call(R) EXCEPT !.fault = "RangeError"]
    ELSE With(buildSeeds(Call(R), R.config.seedCount), LAMBDA built :
             [built.R EXCEPT !.seeds = built.seeds, !.defined = TRUE,
                             !.generateCalls = @ + 1])

\* as split, but with the child built at the origin of its parent
splitAtOrigin(R1, s, i, line) ==
    With(mulberry32(R1.seed), LAMBDA dC :
    With([R1 EXCEPT !.seed = dC.seed, !.drawn = Append(@, dC.x),
                    !.seeds[s].lines[i].split = FALSE], LAMBDA R2 :
    With(buildLine(R2, R2.seeds[s].lines, line.p0,
                   Turned(line.angle, IF Below(dC.x, Widened(OneHalf)) THEN 1 ELSE -1), i),
         LAMBDA child :
        [child.R EXCEPT !.seeds[s].lines = Append(@, child.line),
                        !.log = Append(@, [line |-> <<s, i>>, outcome |-> "split", hit |-> <<0, 0>>])])))

\* the split branch of the callback: one more draw for the side, then the
\* child is built at the tip of its parent and pushed
split(R1, s, i, line) ==
    With(mulberry32(R1.seed), LAMBDA dC :
    With([R1 EXCEPT !.seed = dC.seed, !.drawn = Append(@, dC.x),
                    !.seeds[s].lines[i].split = FALSE], LAMBDA R2 :
    With(buildLine(R2, R2.seeds[s].lines, line.p1,
                   Turned(line.angle, IF Below(dC.x, Widened(OneHalf)) THEN 1 ELSE -1), i),
         LAMBDA child :
        [child.R EXCEPT !.seeds[s].lines = Append(@, child.line),
                        !.log = Append(@, [line |-> <<s, i>>, outcome |-> "split", hit |-> <<0, 0>>])])))

\* the line that was found to collide: clipped and deactivated
Collided(R1, s, i, line, c) ==
    [R1 EXCEPT !.seeds[s].lines[i] = [clip(line) EXCEPT !.active = FALSE],
               !.activeLineCount = @ - 1,
               !.rounding = c.rounding,
               !.log = Append(@, [line |-> <<s, i>>, outcome |-> "collided", hit |-> c.hit])]

\* the line that was found expired: deactivated
Expired(R1, s, i) ==
    [R1 EXCEPT !.seeds[s].lines[i].active = FALSE,
               !.activeLineCount = @ - 1,
               !.log = Append(@, [line |-> <<s, i>>, outcome |-> "expired", hit |-> <<0, 0>>])]

\* the line that only grew
Grew(R1, s, i) ==
    [R1 EXCEPT !.log = Append(@, [line |-> <<s, i>>, outcome |-> "grew", hit |-> <<0, 0>>])]

\* as afterGrow, but with the collision check made before the test of
\* line.expired
afterGrowCollisionFirst(R1, s, i, line) ==
    {IF c.found THEN Collided(R1, s, i, line, c)
     ELSE IF line.expired THEN Expired([R1 EXCEPT !.rounding = c.rounding], s, i)
     ELSE IF line.split THEN split([R1 EXCEPT !.rounding = c.rounding], s, i, line)
     ELSE Grew([R1 EXCEPT !.rounding = c.rounding], s, i) :
        c \in checkForCollisions(R1.seeds, <<s, i>>, R1.rounding)}

\* as afterGrow, but a collision leaves activeLineCount as it is
afterGrowCollisionUncounted(R1, s, i, line) ==
    IF line.expired THEN {Expired(R1, s, i)}
    ELSE {IF c.found
          THEN [Collided(R1, s, i, line, c) EXCEPT !.activeLineCount = R1.activeLineCount]
          ELSE IF line.split THEN split([R1 EXCEPT !.rounding = c.rounding], s, i, line)
          ELSE Grew([R1 EXCEPT !.rounding = c.rounding], s, i) :
             c \in checkForCollisions(R1.seeds, <<s, i>>, R1.rounding)}

\* the callback after line.grow(): line is the grown line, R1 the model
\* holding it
afterGrow(R1, s, i, line) ==
    IF line.expired THEN {Expired(R1, s, i)}
    ELSE {IF c.found THEN Collided(R1, s, i, line, c)
          ELSE IF line.split THEN split([R1 EXCEPT !.rounding = c.rounding], s, i, line)
          ELSE Grew([R1 EXCEPT !.rounding = c.rounding], s, i) :
             c \in checkForCollisions(R1.seeds, <<s, i>>, R1.rounding)}

\* the forEach callback of seed.grow(), on line i of seed s
visitLine(R, s, i) ==
    With(lineGrow(R.seeds[s].lines[i], R), LAMBDA g :
    With([g.line EXCEPT !.visits = @ + 1], LAMBDA line :
        afterGrow([g.R EXCEPT !.seeds[s].lines[i] = line], s, i, line)))

\* as activeLines, but without the filter
everyLine(lines) == [i \in 1..Len(lines) |-> i]

\* this.lines.filter(l => l.active): the indices of the active lines, in order
activeLines(lines) ==
    SelectSeq([i \in 1..Len(lines) |-> i], LAMBDA i : lines[i].active)

\* forEach over the snapshot
RECURSIVE visitAll(_, _, _)
visitAll(R, s, snapshot) ==
    IF snapshot = <<>> THEN {R}
    ELSE UNION {visitAll(R1, s, Tail(snapshot)) : R1 \in visitLine(R, s, Head(snapshot))}

\* as seedGrow, but iterating over this.lines itself, which grows while
\* the iteration runs
RECURSIVE visitLive(_, _, _)
visitLive(R, s, i) ==
    IF i > Len(R.seeds[s].lines) THEN {R}
    ELSE UNION {visitLive(R1, s, i + 1) :
                   R1 \in IF R.seeds[s].lines[i].active THEN visitLine(R, s, i) ELSE {R}}

seedGrowLive(R, s) == visitLive(R, s, 1)

\* seed.grow()
seedGrow(R, s) == visitAll(R, s, activeLines(R.seeds[s].lines))

\* seeds.forEach(s => s.grow())
RECURSIVE growSeeds(_, _)
growSeeds(R, s) ==
    IF s > Len(R.seeds) THEN {R}
    ELSE UNION {growSeeds(R1, s + 1) : R1 \in seedGrow(R, s)}

\* model.grow(): seeds.forEach throws a TypeError while seeds is undefined
grow(R) ==
    IF ~R.defined THEN {[Call(R) EXCEPT !.fault = "TypeError"]}
    ELSE {[G EXCEPT !.tick = @ + 1] : G \in growSeeds(Call(R), 1)}

\* model.isActive()
isActive(R) == R.activeLineCount > 0

\* ------------------------------------------------------------------------
\* The state: runs holds the models that were built (one for each render
\* that createNewRender made), generators the seed captured by each closure
\* that randomFromSeed returned, draw the last call of a generator made
\* directly, with its arguments and its result, pair two segments handed to
\* linesIntersect directly, with the results it can come to, page the
\* renders of the page: the current one, each one's stopRequested and the
\* animation-frame callbacks that are scheduled, and rounding the tests
\* decided so far whose result hangs on the rounding of the arithmetic.  A
\* model reaches its generator through its rnd; while one of its methods
\* runs, the generator's seed is the field seed of R and the tests decided
\* are its field rounding.
\* ------------------------------------------------------------------------

VARIABLES runs, generators, draw, pair, page, rounding

vars == <<runs, generators, draw, pair, page, rounding>>

\* the seeds handed to startNew() that are tried: 0..MaxSeed, and four of
\* the seeds that startNew() takes by default (Date.now() & 0xfffff) whose
\* forests show the rarer events: with 177 a line is stopped by a line
\* that comes after its own child in the scan, with 565 by a child spawned
\* in the same tick, with 817252 a line expires off the canvas, with
\* 900908 a line expires across another line
MaxSeed == 11

EventfulSeeds == {177, 565, 817252, 900908}

Seeds == (0..MaxSeed) \cup EventfulSeeds

\* the calls of generate() on one model that are followed
MaxGenerateCalls == 1

\* the calls of grow() on one model that are followed: MaxTicks in all, and
\* MaxIdleTicks of them made while no line is active
MaxTicks == 2 * (CanvasWidth + CanvasHeight)
MaxIdleTicks == 1

\* buildModel(config, randomFromSeed(seed), collisionDetector)
buildModel(config, generator) ==
    [config |-> config, rnd |-> generator, seeds |-> <<>>, defined |-> FALSE,
     activeLineCount |-> 0, generateCalls |-> 0, tick |-> 0, idle |-> 0, fault |-> "none",
     drawn |-> <<>>, log |-> <<>>,
     traversal |-> [visitor |-> "none", visited |-> <<>>, returns |-> "undefined"]]

\* the visitors handed to forEachLineUntilTrue from outside: one that returns
\* nothing (as the drawing callbacks do), one that returns !line.active and
\* one that returns line.generation > 0
Visitors == {"draw", "stopped", "branch"}

visitor(seeds, v) ==
    [id \in Ids(seeds) |->
        CASE v = "stopped" -> ~LineAt(seeds, id).active
          [] v = "branch"  -> LineAt(seeds, id).generation > 0
          [] OTHER         -> FALSE]

\* as randomFromSeed, but with one seed variable shared by all closures
randomFromSharedSeed(r) == 1

\* randomFromSeed(seed): every call returns a closure of its own; the
\* closure made for run r is generator r
randomFromSeed(r) == r

\* the model of run r while one of its methods runs
Running(r) == [seed |-> generators[runs[r].rnd], rounding |-> rounding] @@ runs[r]

\* the state once the method has returned R
Returned(r, R) ==
    /\ runs' = [runs EXCEPT ![r] = [f \in DOMAIN runs[r] |-> R[f]]]
    /\ generators' = [generators EXCEPT ![runs[r].rnd] = R.seed]
    /\ rounding' = R.rounding
    /\ UNCHANGED <<draw, pair, page>>

\* no segments handed to linesIntersect
NoPair == [l1 |-> [p0 |-> <<0, 0>>, p1 |-> <<0, 0>>],
           l2 |-> [p0 |-> <<0, 0>>, p1 |-> <<0, 0>>],
           called |-> FALSE, result |-> {}]

\* no render made yet: let render, before the first startNew()
NoPage == [render |-> 0, stopRequested |-> <<>>, frames |-> <<>>,
           paused |-> FALSE, updates |-> 0, calls |-> 0]

NoDraw == [n |-> 0, args |-> <<>>, value |-> [int |-> 0, frac |-> <<0, 0>>], x |-> <<0, 0>>]

\* render.init() up to buildModel, for each of the renders in ids, all
\* made from the same seed: rnd = randomFromSeed(seed), config =
\* buildRandomConfig(rnd), model = buildModel(config, rnd, ...)
Built(ids) ==
    \E seed \in Seeds :
        With(buildRandomConfig(Word(seed)), LAMBDA B :
            /\ runs = [r \in ids |-> buildModel(B.config, randomFromSeed(r))]
            /\ generators = [r \in ids |-> B.seed]
            /\ draw = NoDraw
            /\ pair = NoPair
            /\ page = NoPage
            /\ rounding = {})

Init == Built({1})

Generate ==
    \E r \in DOMAIN runs :
        /\ runs[r].generateCalls < MaxGenerateCalls
        /\ Returned(r, generate(Running(r)))

Grow ==
    \E r \in DOMAIN runs :
        /\ runs[r].tick < MaxTicks
        /\ isActive(runs[r]) \/ runs[r].idle < MaxIdleTicks
        /\ \E G \in grow(Running(r)) :
               Returned(r, [G EXCEPT !.idle = IF isActive(runs[r]) THEN @ ELSE @ + 1])

Traverse ==
    \E r \in DOMAIN runs, v \in Visitors :
        /\ runs[r].traversal.visitor = "none"
        /\ runs' = [runs EXCEPT ![r].traversal =
               [visitor |-> v] @@ forEachLineUntilTrue(runs[r].seeds, visitor(runs[r].seeds, v))]
        /\ UNCHANGED <<generators, draw, pair, page, rounding>>

Next == Generate \/ Grow \/ Traverse

Spec == Init /\ [][Next]_vars

\* ------------------------------------------------------------------------
\* buildModel called with a degenerate configuration.  render.init() never
\* makes one (its seedCount is Math.round(rnd(1, 10)), 1 or more): the
\* configuration is the one that buildRandomConfig made, with a seedCount
\* of 0 or less put in its place.
\* ------------------------------------------------------------------------

\* the seed counts tried: -MaxDeficit..0
MaxDeficit == 1

InitDegenerate ==
    \E seed \in Seeds, n \in (-MaxDeficit)..0 :
        With(buildRandomConfig(Word(seed)), LAMBDA B :
            /\ runs = [r \in {1} |->
                          buildModel([B.config EXCEPT !.seedCount = n], randomFromSeed(r))]
            /\ generators = [r \in {1} |-> B.seed]
            /\ draw = NoDraw
            /\ pair = NoPair
            /\ page = NoPage
            /\ rounding = {})

SpecDegenerate == InitDegenerate /\ [][Next]_vars

\* one model on which generate() is called a second time, at any moment
\* after the first call
GenerateAgain ==
    \E r \in DOMAIN runs :
        /\ runs[r].generateCalls = 1
        /\ Returned(r, generate(Running(r)))

NextAgain == Generate \/ GenerateAgain \/ Grow

SpecAgain == Init /\ [][NextAgain]_vars

\* ------------------------------------------------------------------------
\* The page: startNew(), pause(), resume() and applyPencil() called at any
\* moment between animation frames.  page.render is the current render (0 before the first
\* startNew), page.stopRequested the flag of each render made so far and
\* page.frames the callbacks handed to requestAnimationFrame, oldest first,
\* each named by its render.  page.paused tells that the last call of
\* startNew(), pause() and resume() was a pause() of a render that had a
\* callback scheduled, page.updates counts
\* the updates of that render since then, and page.calls the calls made.
\* ------------------------------------------------------------------------
MaxPageSeed == 1

\* the seeds handed to startNew(): 0..MaxPageSeed, whose configurations
\* leave pencilHorizontal off, and 12, whose configuration sets it (two
\* seeds, at rest after five ticks)
PageSeeds == (0..MaxPageSeed) \cup {12}

MaxRenders == 2

MaxPageCalls == 4

\* the model as it is kept between calls
Stored(R) == [f \in DOMAIN R \ {"seed", "rounding"} |-> R[f]]

\* a callback of render r is scheduled
Scheduled(pg, r) == \E i \in 1..Len(pg.frames) : pg.frames[i] = r

\* update(): one tick of the model; the render is complete when no line is
\* active after it.  The drawing in between reads the model and changes
\* nothing of it.
update(R) == grow(R)

\* doUpdate() of render r on model R, for each result of update(); an
\* exception thrown by update() ends it at once
doUpdate(R, r, pg) ==
    {[R    |-> G,
      page |-> With([pg EXCEPT !.updates = IF pg.paused /\ r = pg.render THEN @ + 1 ELSE @],
                    LAMBDA p :
                        IF G.fault # "none" THEN p
                        ELSE IF p.stopRequested[r] THEN [p EXCEPT !.stopRequested[r] = FALSE]
                        ELSE IF ~isActive(G) THEN p
                        ELSE [p EXCEPT !.frames = Append(@, r)])] :
        G \in update(R)}

\* render.stop()
stop(pg, r) == [pg EXCEPT !.stopRequested[r] = TRUE]

\* init() of a new render n up to the end of generate()
init(pg, n, seed) ==
    [R    |-> With(buildRandomConfig(Word(seed)), LAMBDA B :
                  generate([seed |-> B.seed, rounding |-> rounding]
                           @@ buildModel(B.config, randomFromSeed(n)))),
     page |-> [pg EXCEPT !.render = n, !.stopRequested = Append(@, FALSE),
                         !.paused = FALSE, !.updates = 0, !.calls = @ + 1]]

\* startNew(): the current render is stopped, a new one is made, initialised
\* and started; start() runs doUpdate() before it returns
StartNew ==
    /\ Len(runs) < MaxRenders
    /\ page.calls < MaxPageCalls
    /\ \E seed \in PageSeeds :
           With(init(IF page.render # 0 THEN stop(page, page.render) ELSE page,
                     Len(runs) + 1, seed),
                LAMBDA I :
                    \E U \in IF I.R.fault # "none" THEN {I}
                              ELSE doUpdate(I.R, Len(runs) + 1, I.page) :
                        /\ runs' = Append(runs, Stored(U.R))
                        /\ generators' = Append(generators, U.R.seed)
                        /\ rounding' = U.R.rounding
                        /\ page' = U.page)
    /\ UNCHANGED <<draw, pair>>

\* the browser runs the oldest scheduled callback
Frame ==
    /\ page.frames # <<>>
    /\ With(Head(page.frames), LAMBDA r :
           \E U \in doUpdate(Running(r), r, [page EXCEPT !.frames = Tail(@)]) :
               /\ runs' = [runs EXCEPT ![r] = Stored(U.R)]
               /\ generators' = [generators EXCEPT ![runs[r].rnd] = U.R.seed]
               /\ rounding' = U.R.rounding
               /\ page' = U.page)
    /\ UNCHANGED <<draw, pair>>

\* pause(): render.stop()
Pause ==
    /\ page.render # 0
    /\ page.calls < MaxPageCalls
    /\ page' = [stop(page, page.render) EXCEPT !.paused = Scheduled(page, page.render),
                                                !.updates = 0, !.calls = @ + 1]
    /\ UNCHANGED <<runs, generators, draw, pair, rounding>>

\* resume(): render.start()
Resume ==
    /\ page.render # 0
    /\ page.calls < MaxPageCalls
    /\ \E U \in doUpdate(Running(page.render), page.render,
                         [page EXCEPT !.paused = FALSE, !.updates = 0, !.calls = @ + 1]) :
           /\ runs' = [runs EXCEPT ![page.render] = Stored(U.R)]
           /\ generators' = [generators EXCEPT ![runs[page.render].rnd] = U.R.seed]
           /\ rounding' = U.R.rounding
           /\ page' = U.page
    /\ UNCHANGED <<draw, pair>>

\* the draws that view.canvas.drawWithPencil makes, at most, from the rnd
\* it is handed
MaxStrokes == 1

\* view.canvas.drawWithPencil(line, width, colour, rnd) on a generator of
\* that seed: the canvas draws from rnd as often as it likes; the seeds
\* the generator can have when it returns
drawWithPencil(seed) ==
    {IF n = 0 THEN seed ELSE Draws(seed, n)[n].seed : n \in 0..MaxStrokes}

\* the largest difference, in 2^30ths, between the square of SinTurns and
\* Math.sin(angle)**2
PencilErr == 131072

\* Math.sin(line.angle)**2 < rnd() for the draw x / 2^32, both sides in
\* 2^30ths: the results that are possible
sinSquaredBelow(angle, x) ==
    With(SinTurns(Turns(angle)) * SinTurns(Turns(angle)), LAMBDA sq :
    With(x[1] * 16384 + x[2] \div 4, LAMBDA u :
        IF sq + PencilErr < u THEN {TRUE}
        ELSE IF sq - PencilErr > u THEN {FALSE}
        ELSE {TRUE, FALSE}))

\* the operands of that test
Shade(angle, x) == <<angle[1], angle[2], x[1], x[2]>>

\* the draw rnd(10, 100) for the width, then drawWithPencil: the seeds of
\* the generator after them
pencilLine(seed) == drawWithPencil(mulberry32(seed).seed)

\* The first visitor of applyPencil() on the lines named in ids, one after
\* the other, G being the generator's seed and the tests decided: a line
\* is drawn when pencilHorizontal is off (no draw is made for the test
\* then) or when the square of the sine of its angle is below a draw.
RECURSIVE pencilVisitor(_, _, _, _)
pencilVisitor(seeds, config, ids, G) ==
    IF ids = <<>> THEN {G}
    ELSE IF ~config.pencilHorizontal
    THEN UNION {pencilVisitor(seeds, config, Tail(ids), [G EXCEPT !.seed = s]) :
                   s \in pencilLine(G.seed)}
    ELSE With(mulberry32(G.seed), LAMBDA d :
         With(Shade(LineAt(seeds, Head(ids)).angle, d.x), LAMBDA q :
         With(Decided(G.rounding, q, sinSquaredBelow(LineAt(seeds, Head(ids)).angle, d.x)),
              LAMBDA as :
             UNION {UNION {pencilVisitor(seeds, config, Tail(ids),
                                         [seed |-> s, rounding |-> Noted(G.rounding, q, as, a)]) :
                              s \in IF a THEN pencilLine(d.seed) ELSE {d.seed}} :
                       a \in as})))

\* render.applyPencil() on model R: forEachLineUntilTrue visits every line,
\* as the visitor returns nothing; the second visitor draws the lines and
\* makes no draw.  The model is left as it is, but for its generator.
applyPencil(R) ==
    {[R EXCEPT !.seed = G.seed, !.rounding = G.rounding] :
        G \in pencilVisitor(R.seeds, R.config,
                            forEachLineUntilTrue(R.seeds, [id \in Ids(R.seeds) |-> FALSE]).visited,
                            [seed |-> R.seed, rounding |-> R.rounding])}

\* applyPencil(): render.applyPencil()
ApplyPencil ==
    /\ page.render # 0
    /\ page.calls < MaxPageCalls
    /\ \E P \in applyPencil(Running(page.render)) :
           /\ generators' = [generators EXCEPT ![runs[page.render].rnd] = P.seed]
           /\ rounding' = P.rounding
    /\ page' = [page EXCEPT !.calls = @ + 1]
    /\ UNCHANGED <<runs, draw, pair>>

InitPage ==
    /\ runs = <<>>
    /\ generators = <<>>
    /\ draw = NoDraw
    /\ pair = NoPair
    /\ page = NoPage
    /\ rounding = {}

NextPage == StartNew \/ Frame \/ Pause \/ Resume \/ ApplyPencil

SpecPage == InitPage /\ [][NextPage]_vars

\* two renders made from the same seed, their models called in any order
InitTwo == Built({1, 2})

\* render.init() calls generate() once on the model it built
GenerateOnce ==
    \E r \in DOMAIN runs :
        /\ runs[r].generateCalls = 0
        /\ Returned(r, generate(Running(r)))

NextTwo == GenerateOnce \/ Grow

SpecTwo == InitTwo /\ [][NextTwo]_vars

\* ------------------------------------------------------------------------
\* A generator called directly: rnd(), rnd(a) and rnd(a, b) for small
\* integers a and b.  The seed 0x92D4860B is the one from which the first
\* draw is 0: seed + 0x6D2B79F5 is 2^32, whose low 32 bits are 0, which
\* mulberry32 maps to 0.  The seed 2^53 - 2 is one from which the sums are
\* rounded.
\* ------------------------------------------------------------------------

\* the arguments tried: -MaxArg..MaxArg
MaxArg == 3

\* the direct calls of one generator that are followed
MaxDraws == 2

ZeroDrawSeed == <<37588, 34315>>

LargeSeed == <<31, 65535, 65535, 65534>>

\* the call rnd(...args) with the defaults a = 1 and b = 0 filled in
Ranged(x, args) ==
    rnd(x, IF Len(args) >= 1 THEN args[1] ELSE 1, IF Len(args) >= 2 THEN args[2] ELSE 0)

InitRnd ==
    /\ runs = <<>>
    /\ \E seed \in {Word(n) : n \in 0..MaxSeed} \cup {ZeroDrawSeed, LargeSeed} :
           generators = [g \in {1} |-> seed]
    /\ draw = NoDraw
    /\ pair = NoPair
    /\ page = NoPage
    /\ rounding = {}

Draw ==
    /\ draw.n < MaxDraws
    /\ \E args \in {<<>>} \cup {<<a>> : a \in -MaxArg..MaxArg}
                   \cup {<<a, b>> : a, b \in -MaxArg..MaxArg} :
        /\ draw' = With(mulberry32(generators[1]), LAMBDA d :
                       [n |-> draw.n + 1, args |-> args, value |-> Ranged(d.x, args), x |-> d.x])
        /\ generators' = [generators EXCEPT ![1] = mulberry32(@).seed]
        /\ UNCHANGED <<runs, pair, page, rounding>>

NextRnd == Draw

SpecRnd == InitRnd /\ [][NextRnd]_vars

\* ------------------------------------------------------------------------
\* linesIntersect called directly, on two segments with end points on a
\* small grid and on the segments that the specification names.  The end
\* points are integers, which the arithmetic of the code keeps exactly.
\* ------------------------------------------------------------------------

\* the coordinates tried: 0..MaxCoord
MaxCoord == 2

Segment(a, b) == [p0 |-> a, p1 |-> b]

Grid == (0..MaxCoord) \X (0..MaxCoord)

NamedPairs ==
    { <<Segment(<<0, 0>>, <<10, 10>>), Segment(<<0, 10>>, <<10, 0>>)>>,
      <<Segment(<<0, 0>>, <<10, 0>>), Segment(<<0, 5>>, <<10, 5>>)>>,
      <<Segment(<<0, 0>>, <<10, 0>>), Segment(<<5, 0>>, <<15, 0>>)>> }

InitPair ==
    /\ runs = <<>>
    /\ generators = <<>>
    /\ draw = NoDraw
    /\ page = NoPage
    /\ rounding = {}
    /\ \E ls \in NamedPairs \cup {<<Segment(a, b), Segment(c, d)>> : a, b, c, d \in Grid} :
           pair = [l1 |-> ls[1], l2 |-> ls[2], called |-> FALSE, result |-> {}]

Intersect ==
    /\ ~pair.called
    /\ pair' = [pair EXCEPT !.called = TRUE, !.result = linesIntersect(pair.l1, pair.l2, 0)]
    /\ UNCHANGED <<runs, generators, draw, page, rounding>>

NextPair == Intersect

SpecPair == InitPair /\ [][NextPair]_vars

\* ========================================================================
\* Properties
\* ========================================================================

\* all lines of the forest, seed after seed and in each seed in the order
\* in which they were pushed
Flatten(seeds) ==
    LET F[s \in 0..Len(seeds)] ==
            IF s = 0 THEN <<>>
            ELSE F[s - 1] \o [i \in 1..Len(seeds[s].lines) |-> <<s, i>>]
    IN  F[Len(seeds)]

\* the lines the last grow() visited, in the order of the visits
Visited(R) == [k \in 1..Len(R.log) |-> R.log[k].line]

\* the step of run r is a call of grow() that returned
IsTick(r) == runs'[r].tick = runs[r].tick + 1

\* the tip of line one step further along its angle
StepFrom(line) ==
    <<line.p1[1] + Sin(line.angle) * growthRate, line.p1[2] + Cos(line.angle) * growthRate>>

\* The tests of the code as the properties read them: a test holds when
\* the code comes to TRUE however the arithmetic rounds, and can hold when
\* some rounding brings it to TRUE.
IsOffscreen(line) == lineOffscreen(line, Err) = {TRUE}
CanBeOffscreen(line) == TRUE \in lineOffscreen(line, Err)
DoIntersect(l1, l2) == linesIntersect(l1, l2, Err) = {TRUE}
CanIntersect(l1, l2) == TRUE \in linesIntersect(l1, l2, Err)

\* the line of the k-th visit as its collision check saw it: a line that
\* was found to collide has been retracted since
Checked(R, k) ==
    With(LineAt(R.seeds, R.log[k].line), LAMBDA line :
        IF R.log[k].outcome = "collided" THEN [line EXCEPT !.p1 = StepFrom(line)] ELSE line)

\* ------------------------------------------------------------------------
\* C1: a call of grow() visits the lines that were active when it started,
\* each exactly once and in forest order; it advances no other line: a
\* line that was inactive keeps its step count, and a line created during
\* the call ends it with the single step of its construction, not visited.
\* ------------------------------------------------------------------------
TickVisitsSnapshotOnce ==
    [][\A r \in DOMAIN runs : IsTick(r) =>
          /\ Visited(runs'[r]) =
                 SelectSeq(Flatten(runs[r].seeds),
                           LAMBDA id : LineAt(runs[r].seeds, id).active)
          /\ \A id \in Ids(runs'[r].seeds) :
                 IF id \in Ids(runs[r].seeds)
                 THEN /\ LineAt(runs'[r].seeds, id).steps =
                             LineAt(runs[r].seeds, id).steps
                               + (IF LineAt(runs[r].seeds, id).active THEN 1 ELSE 0)
                      /\ LineAt(runs'[r].seeds, id).visits =
                             LineAt(runs[r].seeds, id).visits
                               + (IF LineAt(runs[r].seeds, id).active THEN 1 ELSE 0)
                 ELSE /\ LineAt(runs'[r].seeds, id).steps = 1
                      /\ LineAt(runs'[r].seeds, id).visits = 0]_vars

\* a tick that split a line while a stopped line stood by, unvisited
TickWithSplitAndStoppedLine ==
    \E r \in DOMAIN runs :
        /\ runs[r].tick > 0
        /\ \E k \in 1..Len(runs[r].log) : runs[r].log[k].outcome = "split"
        /\ \E id \in Ids(runs[r].seeds) :
               /\ ~LineAt(runs[r].seeds, id).active
               /\ \A k \in 1..Len(runs[r].log) : runs[r].log[k].line # id

\* ------------------------------------------------------------------------
\* C2: after one generate() and any number of grow(), activeLineCount is
\* the number of lines whose active flag is set, so that isActive() is
\* true exactly when some line is active.
\* ------------------------------------------------------------------------
ActiveLines(R) == {id \in Ids(R.seeds) : LineAt(R.seeds, id).active}

CounterCountsActiveLines ==
    \A r \in DOMAIN runs : runs[r].generateCalls = 1 =>
        /\ runs[r].activeLineCount = Cardinality(ActiveLines(runs[r]))
        /\ isActive(runs[r]) <=> ActiveLines(runs[r]) # {}

\* some lines still grow, others have stopped
SomeActiveSomeStopped ==
    \E r \in DOMAIN runs :
        /\ runs[r].generateCalls = 1
        /\ runs[r].tick >= 2
        /\ Cardinality(ActiveLines(runs[r])) >= 2
        /\ Cardinality(Ids(runs[r].seeds) \ ActiveLines(runs[r])) >= 2

\* ------------------------------------------------------------------------
\* C3: a line leaves the growing state only as expired or as collided, and
\* never comes back: a call of grow() leaves a stopped line as it was.
\* ------------------------------------------------------------------------
StoppedLinesStayAsTheyAre ==
    [][\A r \in DOMAIN runs : IsTick(r) =>
          \A id \in Ids(runs[r].seeds) :
              /\ ~LineAt(runs[r].seeds, id).active =>
                     LineAt(runs'[r].seeds, id) = LineAt(runs[r].seeds, id)
              /\ (LineAt(runs[r].seeds, id).active /\ ~LineAt(runs'[r].seeds, id).active) =>
                     \E k \in 1..Len(runs'[r].log) :
                         /\ runs'[r].log[k].line = id
                         /\ runs'[r].log[k].outcome \in {"expired", "collided"}]_vars

\* a line stopped by expiry and one stopped by a collision, both passed
\* over by a later tick that advanced other lines
BothKindsOfStoppedLinePassedOver ==
    \E r \in DOMAIN runs :
        /\ runs[r].log # <<>>
        /\ \E id1, id2 \in Ids(runs[r].seeds) \ {runs[r].log[k].line : k \in 1..Len(runs[r].log)} :
               /\ ~LineAt(runs[r].seeds, id1).active /\ LineAt(runs[r].seeds, id1).expired
               /\ ~LineAt(runs[r].seeds, id2).active /\ ~LineAt(runs[r].seeds, id2).expired

\* ------------------------------------------------------------------------
\* C4: forEachLineUntilTrue(visitor) calls visitor on the lines seed after
\* seed and, in a seed, in the order of their creation, and on no line
\* after the first one on which visitor returns a truthy value; whatever
\* the visitor returned, the method itself returns undefined.
\* ------------------------------------------------------------------------

\* the lines up to and including the first one fn is truthy on
UpToFirst(order, fn) ==
    LET hits == {k \in 1..Len(order) : fn[order[k]]}
    IN  IF hits = {} THEN order
        ELSE SubSeq(order, 1, CHOOSE k \in hits : \A j \in hits : k <= j)

\* the order and the early stop of a traversal made from outside
TraversalInOrder(r) ==
    runs[r].traversal.visited =
        UpToFirst(Flatten(runs[r].seeds), visitor(runs[r].seeds, runs[r].traversal.visitor))

\* the traversal met a line on which its visitor is truthy
TraversalHit(r) ==
    \E id \in Ids(runs[r].seeds) : visitor(runs[r].seeds, runs[r].traversal.visitor)[id]

TraversalStopsAtFirstHitReturnsUndefined ==
    \A r \in DOMAIN runs : runs[r].traversal.visitor # "none" =>
        /\ TraversalInOrder(r)
        /\ runs[r].traversal.returns = "undefined"

\* C4 as claimed: the same order and early stop, and true returned after
\* a truthy visit
TraversalReturnsTrueOnHit ==
    \A r \in DOMAIN runs : runs[r].traversal.visitor # "none" =>
        /\ TraversalInOrder(r)
        /\ TraversalHit(r) => runs[r].traversal.returns = "true"

\* a traversal over two seeds that stopped in the second one, before the
\* last line
TraversalStoppedMidway ==
    \E r \in DOMAIN runs :
        /\ runs[r].traversal.visitor # "none"
        /\ TraversalHit(r)
        /\ Len(runs[r].traversal.visited) < Cardinality(Ids(runs[r].seeds))
        /\ \E k \in 1..Len(runs[r].traversal.visited) : runs[r].traversal.visited[k][1] > 1

\* the double 1, times 2^96
One == <<1, 0, 0, 0, 0, 0, 0>>

\* ------------------------------------------------------------------------
\* C5: with pBifurcation < 1 and expiryThreshold > 0, the ticks after
\* generate() reach a state where isActive() is false in fewer than
\* MaxTicks ticks: no model is still active after MaxTicks of them.
\* ------------------------------------------------------------------------
StopsWithinMaxTicks ==
    \A r \in DOMAIN runs :
        (/\ runs[r].generateCalls = 1
         /\ Less(runs[r].config.pBifurcation, One)
         /\ Less(Widened(Zero), runs[r].config.expiryThreshold)
         /\ isActive(runs[r])) => runs[r].tick < MaxTicks

\* a forest of several lines, some of them children, that took several
\* ticks to come to rest
ForestCameToRest ==
    \E r \in DOMAIN runs :
        /\ runs[r].generateCalls = 1
        /\ ~isActive(runs[r])
        /\ runs[r].tick >= 5
        /\ Cardinality(Ids(runs[r].seeds)) >= 4
        /\ \E id \in Ids(runs[r].seeds) : LineAt(runs[r].seeds, id).generation >= 2

\* ------------------------------------------------------------------------
\* C6: two renders built from the same seed and configuration that have
\* each run generate() and then the same number of ticks have drawn the
\* same words and hold the same forest, the same counter and generators
\* in the same state.
\* ------------------------------------------------------------------------
SameSeedSameForest ==
    \A r, q \in DOMAIN runs :
        (/\ runs[r].generateCalls = 1
         /\ runs[q].generateCalls = 1
         /\ runs[r].tick = runs[q].tick) =>
            /\ runs[r].seeds = runs[q].seeds
            /\ runs[r].drawn = runs[q].drawn
            /\ runs[r].activeLineCount = runs[q].activeLineCount
            /\ generators[runs[r].rnd] = generators[runs[q].rnd]

\* both renders have ticked three times or more and hold a forest with
\* children
TwoRendersAtTheSameTick ==
    /\ DOMAIN runs = {1, 2}
    /\ runs[1].generateCalls = 1
    /\ runs[2].generateCalls = 1
    /\ runs[1].tick = runs[2].tick
    /\ runs[1].tick >= 3
    /\ runs[1].drawn # <<>>
    /\ Cardinality(Ids(runs[2].seeds)) >= 3

\* ------------------------------------------------------------------------
\* C7: checkForCollisions reports a collision for a line only when the
\* line's tip can be off the canvas or the line can intersect a line that
\* is neither itself, nor its parent, nor one of its children: an
\* intersection with itself, its parent or a child is never a reason.  The
\* scan goes on past those lines to the others: a line that is on the
\* canvas and is not reported intersects none of the others.
\* ------------------------------------------------------------------------
Adjacent(seeds, id1, id2) ==
    id1 = id2 \/ IsParentOf(seeds, id2, id1) \/ IsParentOf(seeds, id1, id2)

CollisionsOnlyWithStrangers ==
    \A r \in DOMAIN runs :
      /\ \A k \in 1..Len(runs[r].log) :
             runs[r].log[k].hit \in Ids(runs[r].seeds) =>
                 ~Adjacent(runs[r].seeds, runs[r].log[k].line, runs[r].log[k].hit)
      /\ \A id1 \in Ids(runs[r].seeds) :
        \A c \in checkForCollisions(runs[r].seeds, id1, rounding) :
            /\ c.found =>
                   \/ c.hit = <<0, 0>> /\ CanBeOffscreen(LineAt(runs[r].seeds, id1))
                   \/ /\ c.hit \in Ids(runs[r].seeds)
                      /\ ~Adjacent(runs[r].seeds, id1, c.hit)
                      /\ CanIntersect(LineAt(runs[r].seeds, id1), LineAt(runs[r].seeds, c.hit))
            /\ ~c.found =>
                   /\ ~IsOffscreen(LineAt(runs[r].seeds, id1))
                   /\ \A id2 \in Ids(runs[r].seeds) :
                          ~Adjacent(runs[r].seeds, id1, id2) =>
                              ~DoIntersect(LineAt(runs[r].seeds, id1), LineAt(runs[r].seeds, id2))

\* the line id1 comes before the line id2 in the scan
Before(id1, id2) == id1[1] < id2[1] \/ (id1[1] = id2[1] /\ id1[2] < id2[2])

\* a growing child whose origin lies on its parent and that no check
\* reports, and, in the same forest, a line that the last tick stopped
\* for its intersection with a line that comes after its own parent or
\* child in the scan
ChildTouchesParentUnreported ==
    \E r \in DOMAIN runs : \E id1, id2, id5 \in Ids(runs[r].seeds) :
        \E k \in 1..Len(runs[r].log) :
            /\ IsParentOf(runs[r].seeds, id2, id1)
            /\ LineAt(runs[r].seeds, id1).active
            /\ linesIntersect(LineAt(runs[r].seeds, id1), LineAt(runs[r].seeds, id2), 0) = {TRUE}
            /\ CanIntersect(LineAt(runs[r].seeds, id1), LineAt(runs[r].seeds, id2))
            /\ \A c \in checkForCollisions(runs[r].seeds, id1, rounding) : ~c.found
            /\ runs[r].log[k].outcome = "collided"
            /\ runs[r].log[k].hit \in Ids(runs[r].seeds)
            /\ id5 # runs[r].log[k].line
            /\ Adjacent(runs[r].seeds, runs[r].log[k].line, id5)
            /\ Before(id5, runs[r].log[k].hit)
            /\ DoIntersect(Checked(runs[r], k), LineAt(runs[r].seeds, runs[r].log[k].hit))

\* ------------------------------------------------------------------------
\* C8: a line that k ticks have advanced has the step count k + 1: its
\* construction takes the first step, and each tick in which it is active
\* takes one more.
\* ------------------------------------------------------------------------
StepsAreTicksPlusOne ==
    \A r \in DOMAIN runs : \A id \in Ids(runs[r].seeds) :
        LineAt(runs[r].seeds, id).steps = LineAt(runs[r].seeds, id).visits + 1

\* C8 as claimed: the step count is the number k of ticks in which the
\* line was active, the tick that created it counted in
StepsAreActiveTicks ==
    \A r \in DOMAIN runs : \A id \in Ids(runs[r].seeds) :
        LineAt(runs[r].seeds, id).steps =
            LineAt(runs[r].seeds, id).visits
              + (IF LineAt(runs[r].seeds, id).generation > 0 THEN 1 ELSE 0)

\* a root and a child that several ticks have advanced
RootAndChildAdvanced ==
    \E r \in DOMAIN runs : \E id1, id2 \in Ids(runs[r].seeds) :
        /\ LineAt(runs[r].seeds, id1).generation = 0
        /\ LineAt(runs[r].seeds, id1).steps >= 4
        /\ LineAt(runs[r].seeds, id2).generation > 0
        /\ LineAt(runs[r].seeds, id2).steps >= 3

\* ------------------------------------------------------------------------
\* C9: on a model built with a seedCount of 0 or less, generate() returns
\* without throwing and leaves an empty model on which isActive() is false.
\* ------------------------------------------------------------------------
DegenerateConfigIsEmptyModel ==
    \A r \in DOMAIN runs : runs[r].config.seedCount <= 0 =>
        /\ runs[r].fault # "RangeError"
        /\ runs[r].generateCalls > 0 => (runs[r].seeds = <<>> /\ ~isActive(runs[r]))

\* ------------------------------------------------------------------------
\* C10: a ranged draw rnd(a, b) with b # 0 is a + u * (b - a) for a u in
\* [0, 1): it lies in [a, b) when a < b, in (b, a] when a > b, and is a
\* when a = b.  With b = 0 or left out it is u * a: in [0, a) when a > 0,
\* in (a, 0] when a < 0, and 0 when a = 0.  With no argument it lies in
\* [0, 1).
\* ------------------------------------------------------------------------

\* comparisons of a value [int, frac] with an integer
AtLeast(v, m) == v.int >= m
Under(v, m) == v.int < m
Over(v, m) == v.int > m \/ (v.int = m /\ v.frac # <<0, 0>>)
AtMost(v, m) == v.int < m \/ (v.int = m /\ v.frac = <<0, 0>>)

\* the arguments of the last direct call, with the defaults filled in
ArgA == IF Len(draw.args) >= 1 THEN draw.args[1] ELSE 1
ArgB == IF Len(draw.args) >= 2 THEN draw.args[2] ELSE 0

RangedDrawFromFirstTowardsSecond ==
    draw.n > 0 =>
        IF ArgB # 0
        THEN /\ ArgA < ArgB => (AtLeast(draw.value, ArgA) /\ Under(draw.value, ArgB))
             /\ ArgA > ArgB => (Over(draw.value, ArgB) /\ AtMost(draw.value, ArgA))
             /\ ArgA = ArgB => (AtLeast(draw.value, ArgA) /\ AtMost(draw.value, ArgA))
        ELSE /\ ArgA > 0 => (AtLeast(draw.value, 0) /\ Under(draw.value, ArgA))
             /\ ArgA < 0 => (Over(draw.value, ArgA) /\ AtMost(draw.value, 0))
             /\ ArgA = 0 => (AtLeast(draw.value, 0) /\ AtMost(draw.value, 0))

\* C10 as claimed, for the arguments that leave the claimed interval
\* non-empty: [min(a, b), max(a, b)) for two different arguments, [0, a)
\* for one positive argument, [0, 1) for none
RangedDrawInMinMaxInterval ==
    draw.n > 0 =>
        /\ Len(draw.args) = 0 => (AtLeast(draw.value, 0) /\ Under(draw.value, 1))
        /\ (Len(draw.args) = 1 /\ ArgA > 0) =>
               (AtLeast(draw.value, 0) /\ Under(draw.value, ArgA))
        /\ (Len(draw.args) = 2 /\ ArgA # ArgB) =>
               (AtLeast(draw.value, Min(ArgA, ArgB)) /\ Under(draw.value, Max(ArgA, ArgB)))

\* a draw with the larger argument first that came out at that argument:
\* the raw draw was 0
DrawWithLargerArgumentFirst ==
    /\ draw.n > 0
    /\ Len(draw.args) = 2
    /\ ArgB # 0
    /\ ArgA > ArgB
    /\ draw.x = <<0, 0>>
    /\ draw.value.int = ArgA

\* ------------------------------------------------------------------------
\* C11: on segments whose end points are integers, linesIntersect(l1, l2)
\* is true exactly when the closed segments l1 and l2 have a point in common, be it a proper crossing, a touching end
\* point or a collinear overlap; it is true on (0,0)-(10,10) and
\* (0,10)-(10,0), false on (0,0)-(10,0) and (0,5)-(10,5), true on
\* (0,0)-(10,0) and (5,0)-(15,0).
\* ------------------------------------------------------------------------
Minus(p, q) == <<p[1] - q[1], p[2] - q[2]>>
Cross(u, v) == u[1] * v[2] - u[2] * v[1]
Dot(u, v) == u[1] * v[1] + u[2] * v[2]

\* 0 <= n / d <= 1, for d # 0
IsFraction(n, d) == IF d > 0 THEN 0 <= n /\ n <= d ELSE d <= n /\ n <= 0

\* the point p lies on the closed segment l
PointOn(p, l) ==
    LET d == Minus(l.p1, l.p0)
        w == Minus(p, l.p0)
    IN  IF d = <<0, 0>> THEN p = l.p0
        ELSE Cross(w, d) = 0 /\ 0 <= Dot(w, d) /\ Dot(w, d) <= Dot(d, d)

\* l1.p0 + s * d1 = l2.p0 + t * d2 has a solution with s and t in [0, 1]:
\* by Cramer's rule when the directions are independent, and otherwise
\* when an end point of one segment lies on the other
SharePoint(l1, l2) ==
    LET d1 == Minus(l1.p1, l1.p0)
        d2 == Minus(l2.p1, l2.p0)
        w  == Minus(l2.p0, l1.p0)
    IN  IF Cross(d1, d2) # 0
        THEN IsFraction(Cross(w, d2), Cross(d1, d2)) /\ IsFraction(Cross(w, d1), Cross(d1, d2))
        ELSE PointOn(l1.p0, l2) \/ PointOn(l1.p1, l2) \/ PointOn(l2.p0, l1) \/ PointOn(l2.p1, l1)

IntersectIffSharePoint ==
    pair.called =>
        /\ pair.result = {SharePoint(pair.l1, pair.l2)}
        /\ (pair.l1 = Segment(<<0, 0>>, <<10, 10>>) /\ pair.l2 = Segment(<<0, 10>>, <<10, 0>>))
               => pair.result = {TRUE}
        /\ (pair.l1 = Segment(<<0, 0>>, <<10, 0>>) /\ pair.l2 = Segment(<<0, 5>>, <<10, 5>>))
               => pair.result = {FALSE}
        /\ (pair.l1 = Segment(<<0, 0>>, <<10, 0>>) /\ pair.l2 = Segment(<<5, 0>>, <<15, 0>>))
               => pair.result = {TRUE}

\* the collinear overlap that the specification names, found to intersect
CollinearOverlapIntersects ==
    /\ pair.called
    /\ pair.l1 = Segment(<<0, 0>>, <<10, 0>>)
    /\ pair.l2 = Segment(<<5, 0>>, <<15, 0>>)
    /\ pair.result = {TRUE}

\* ------------------------------------------------------------------------
\* C12: with a seedCount in the documented range (an integer above 0), no
\* call of generate(), grow(), isActive() or forEachLineUntilTrue() on a
\* model throws, in whatever order the calls are made.
\* ------------------------------------------------------------------------
NoCallThrows ==
    \A r \in DOMAIN runs : runs[r].config.seedCount > 0 => runs[r].fault = "none"

\* ------------------------------------------------------------------------
\* C13: a child spawned during a tick is not visited by that tick: it ends
\* the tick active, with the one step of its construction and without a
\* child of its own.  It is in the forest at once, though: the collision
\* checks of the lines processed later in the same tick scan it, so that a
\* line which passed its check after the child was spawned does not
\* intersect the child.
\* ------------------------------------------------------------------------

\* the children that the last tick of R spawned
NewChildren(R) ==
    {id \in Ids(R.seeds) : LineAt(R.seeds, id).parent # 0 /\ LineAt(R.seeds, id).visits = 0}

\* the child c is left alone by the loop of the tick that spawned it
UnvisitedByItsTick(R, c) ==
    /\ LineAt(R.seeds, c).active
    /\ LineAt(R.seeds, c).steps = 1
    /\ \A id \in Ids(R.seeds) : ~IsParentOf(R.seeds, c, id)
    /\ \A k \in 1..Len(R.log) : R.log[k].line # c

\* the visits of the last tick that came after the one that spawned c
VisitsAfterSpawn(R, c) ==
    {k \in 1..Len(R.log) :
        \E j \in 1..(k - 1) : R.log[j].line = <<c[1], LineAt(R.seeds, c).parent>>}

SpawnedChildIsObstacleAtOnce ==
    \A r \in DOMAIN runs : \A c \in NewChildren(runs[r]) :
        /\ UnvisitedByItsTick(runs[r], c)
        /\ \A k \in VisitsAfterSpawn(runs[r], c) :
               (/\ runs[r].log[k].outcome \in {"grew", "split"}
                /\ ~Adjacent(runs[r].seeds, runs[r].log[k].line, c))
               => ~DoIntersect(Checked(runs[r], k), LineAt(runs[r].seeds, c))

\* C13 as claimed: the child is left alone by the loop, and no collision
\* check of the tick that spawned it stops on an intersection with it
SpawnedChildIsInvisible ==
    \A r \in DOMAIN runs : \A c \in NewChildren(runs[r]) :
        /\ UnvisitedByItsTick(runs[r], c)
        /\ \A k \in 1..Len(runs[r].log) :
               runs[r].log[k].hit = c =>
                   ~DoIntersect(Checked(runs[r], k), LineAt(runs[r].seeds, c))

\* a line stopped because it intersects a child spawned earlier in the
\* same tick
StoppedByChildOfSameTick ==
    \E r \in DOMAIN runs : \E c \in NewChildren(runs[r]) :
        \E k \in VisitsAfterSpawn(runs[r], c) :
            /\ runs[r].log[k].outcome = "collided"
            /\ runs[r].log[k].hit = c
            /\ DoIntersect(Checked(runs[r], k), LineAt(runs[r].seeds, c))

\* ------------------------------------------------------------------------
\* C14: a tick does exactly one thing to each line it visits.  A line
\* that is expired after its step is deactivated where it stands, not
\* retracted even where a collision would be reported, and spawns nothing.
\* Otherwise a line with a reported collision ends the tick one step
\* forward and one back (at the tip it started from, in the units of the
\* model), deactivated, and spawns nothing.  Otherwise the line stays active with its split flag clear,
\* one step further, with one new child if it split and none if not.  The
\* counter goes down by one for each deactivation and up by one for each
\* child.
\* ------------------------------------------------------------------------

\* the children of line id that the step from R to S added
Spawned(R, S, id) ==
    {c \in Ids(S.seeds) \ Ids(R.seeds) : IsParentOf(S.seeds, id, c)}

\* what the tick from R to S did to the line of its k-th visit
OutcomeOfVisit(R, S, k) ==
    LET id   == S.log[k].line
        was  == LineAt(R.seeds, id)
        now  == LineAt(S.seeds, id)
        kids == Spawned(R, S, id)
    IN  /\ now.expired <=> S.log[k].outcome = "expired"
        /\ CASE S.log[k].outcome = "expired" ->
                    ~now.active /\ now.p1 = StepFrom(was) /\ kids = {}
             [] S.log[k].outcome = "collided" ->
                    ~now.active /\ now.p1 = was.p1 /\ kids = {}
             [] S.log[k].outcome = "split" ->
                    /\ now.active /\ ~now.split /\ now.p1 = StepFrom(was)
                    /\ Cardinality(kids) = 1
                    /\ \A c \in kids : LineAt(S.seeds, c).p0 = now.p1
             [] OTHER ->
                    now.active /\ ~now.split /\ now.p1 = StepFrom(was) /\ kids = {}

Stops(R) == {k \in 1..Len(R.log) : R.log[k].outcome \in {"expired", "collided"}}

OneOutcomeForEachVisit ==
    [][\A r \in DOMAIN runs : IsTick(r) =>
          /\ \A k \in 1..Len(runs'[r].log) : OutcomeOfVisit(runs[r], runs'[r], k)
          /\ runs'[r].activeLineCount =
                 runs[r].activeLineCount - Cardinality(Stops(runs'[r]))
                   + Cardinality(Ids(runs'[r].seeds) \ Ids(runs[r].seeds))]_vars

\* a tick that left an expired line standing off the canvas, stopped
\* another line by a collision and split a third
TickWithEveryOutcome ==
    \E r \in DOMAIN runs : \E k1, k2, k3 \in 1..Len(runs[r].log) :
        /\ runs[r].log[k1].outcome = "expired"
        /\ runs[r].log[k2].outcome = "collided"
        /\ runs[r].log[k3].outcome = "split"
        /\ \E k \in Stops(runs[r]) :
               /\ runs[r].log[k].outcome = "expired"
               /\ \/ IsOffscreen(LineAt(runs[r].seeds, runs[r].log[k].line))
                  \/ \E id \in Ids(runs[r].seeds) :
                         /\ ~Adjacent(runs[r].seeds, runs[r].log[k].line, id)
                         /\ DoIntersect(LineAt(runs[r].seeds, runs[r].log[k].line),
                                        LineAt(runs[r].seeds, id))

\* ------------------------------------------------------------------------
\* C15: every operation keeps the shape of the forest.  The first line of
\* a seed is its only root (generation 0, no parent); every other line has
\* its parent before it in the same seed, the parent's generation plus
\* one and the parent's angle plus or minus a quarter turn.  A tick only
\* appends: the lines that were there keep their place, origin, angle,
\* generation and parent, and each new line is the child of a line that
\* split in this tick, with its origin at the tip of that line.
\* ------------------------------------------------------------------------
ForestShape(R) ==
    \A s \in 1..Len(R.seeds) :
        /\ Len(R.seeds[s].lines) >= 1
        /\ \A i \in 1..Len(R.seeds[s].lines) :
               LET line == R.seeds[s].lines[i]
               IN  IF i = 1
                   THEN line.generation = 0 /\ line.parent = 0
                   ELSE /\ line.parent \in 1..(i - 1)
                        /\ line.generation = R.seeds[s].lines[line.parent].generation + 1
                        /\ \/ line.angle = Turned(R.seeds[s].lines[line.parent].angle, 1)
                           \/ line.angle = Turned(R.seeds[s].lines[line.parent].angle, -1)

TickAppends(R, S) ==
    /\ Len(S.seeds) = Len(R.seeds)
    /\ \A s \in 1..Len(R.seeds) :
           /\ Len(S.seeds[s].lines) >= Len(R.seeds[s].lines)
           /\ \A i \in 1..Len(S.seeds[s].lines) :
                  LET now == S.seeds[s].lines[i]
                  IN  IF i <= Len(R.seeds[s].lines)
                      THEN /\ now.p0 = R.seeds[s].lines[i].p0
                           /\ now.angle = R.seeds[s].lines[i].angle
                           /\ now.generation = R.seeds[s].lines[i].generation
                           /\ now.parent = R.seeds[s].lines[i].parent
                      ELSE /\ now.p0 = S.seeds[s].lines[now.parent].p1
                           /\ \E k \in 1..Len(S.log) :
                                  /\ S.log[k].line = <<s, now.parent>>
                                  /\ S.log[k].outcome = "split"

ForestShapeKept ==
    [][\A r \in DOMAIN runs :
          /\ ForestShape(runs'[r])
          /\ IsTick(r) => TickAppends(runs[r], runs'[r])]_vars

\* a seed with a grandchild, one line turned left from its parent and one
\* turned right
ForestWithGrandchild ==
    \E r \in DOMAIN runs : \E s \in 1..Len(runs[r].seeds) :
        \E i, j, k \in 2..Len(runs[r].seeds[s].lines) :
            /\ runs[r].seeds[s].lines[i].generation = 2
            /\ runs[r].seeds[s].lines[j].angle =
                   Turned(runs[r].seeds[s].lines[runs[r].seeds[s].lines[j].parent].angle, 1)
            /\ runs[r].seeds[s].lines[k].angle =
                   Turned(runs[r].seeds[s].lines[runs[r].seeds[s].lines[k].parent].angle, -1)

\* ------------------------------------------------------------------------
\* C16: the tip of every line is its origin plus n steps of growthRate
\* along its angle, with n >= 1: n is the step count for a line that is
\* active or was stopped as expired, and the step count minus one for a
\* line that was stopped by a collision, the one retraction of its life.
\* The sums are taken in the units of the model.
\* ------------------------------------------------------------------------

\* the line was stopped by a reported collision
StoppedCollided(line) == ~line.active /\ ~line.expired

\* the steps that lie between the origin and the tip
Extent(line) == IF StoppedCollided(line) THEN line.steps - 1 ELSE line.steps

TipIsOriginPlusSteps ==
    \A r \in DOMAIN runs : \A id \in Ids(runs[r].seeds) :
        LET line == LineAt(runs[r].seeds, id)
        IN  /\ Extent(line) >= 1
            /\ line.p1 = <<line.p0[1] + Extent(line) * Sin(line.angle) * growthRate,
                           line.p0[2] + Extent(line) * Cos(line.angle) * growthRate>>

\* a forest with a line that is growing, one that expired and one that a
\* collision stopped after several steps
ForestWithRetractedLine ==
    \E r \in DOMAIN runs : \E id1, id2, id3 \in Ids(runs[r].seeds) :
        /\ LineAt(runs[r].seeds, id1).active
        /\ LineAt(runs[r].seeds, id1).steps >= 2
        /\ ~LineAt(runs[r].seeds, id2).active
        /\ LineAt(runs[r].seeds, id2).expired
        /\ StoppedCollided(LineAt(runs[r].seeds, id3))
        /\ LineAt(runs[r].seeds, id3).steps >= 3

\* ------------------------------------------------------------------------
\* C17: a root line (generation 0) is never marked expired, so that a
\* root stops only by a reported collision and every line that was stopped
\* as expired has a generation of 1 or more.
\* ------------------------------------------------------------------------
RootsNeverExpire ==
    \A r \in DOMAIN runs : \A id \in Ids(runs[r].seeds) :
        /\ LineAt(runs[r].seeds, id).generation = 0 => ~LineAt(runs[r].seeds, id).expired
        /\ (~LineAt(runs[r].seeds, id).active /\ LineAt(runs[r].seeds, id).generation = 0)
               => StoppedCollided(LineAt(runs[r].seeds, id))
        /\ (~LineAt(runs[r].seeds, id).active /\ LineAt(runs[r].seeds, id).expired)
               => LineAt(runs[r].seeds, id).generation >= 1

\* a root that a collision stopped after many steps, next to a child that
\* expired
OldRootAndExpiredChild ==
    \E r \in DOMAIN runs : \E id1, id2 \in Ids(runs[r].seeds) :
        /\ LineAt(runs[r].seeds, id1).generation = 0
        /\ LineAt(runs[r].seeds, id1).steps >= 8
        /\ ~LineAt(runs[r].seeds, id1).active
        /\ LineAt(runs[r].seeds, id2).generation = 1
        /\ LineAt(runs[r].seeds, id2).expired
        /\ ~LineAt(runs[r].seeds, id2).active

\* ------------------------------------------------------------------------
\* C18: at the end of every tick, two lines that are not parent and child
\* intersect, by more than the rounding of the arithmetic can decide, only
\* if one of them holds a step that no collision check covered: it was
\* stopped as expired (the step that expired it is not checked), or no tick
\* has visited it since its construction (whose step is not checked), or
\* the collision of its first visit stopped it (and retracted it to the
\* step of its construction).
\* ------------------------------------------------------------------------

\* two lines of R that intersect without being parent and child
Crossing(R, id1, id2) ==
    /\ ~Adjacent(R.seeds, id1, id2)
    /\ DoIntersect(LineAt(R.seeds, id1), LineAt(R.seeds, id2))

\* the line holds a step that no collision check covered
Unchecked(line) ==
    \/ ~line.active /\ line.expired
    \/ line.visits = 0
    \/ StoppedCollided(line) /\ line.visits = 1

CheckedLinesDoNotCross ==
    \A r \in DOMAIN runs : runs[r].tick >= 1 =>
        \A id1, id2 \in Ids(runs[r].seeds) :
            Crossing(runs[r], id1, id2) =>
                Unchecked(LineAt(runs[r].seeds, id1)) \/ Unchecked(LineAt(runs[r].seeds, id2))

\* C18 as claimed: at the end of every tick no two lines intersect, parent
\* and child apart
NoLinesCross ==
    \A r \in DOMAIN runs : runs[r].tick >= 1 =>
        \A id1, id2 \in Ids(runs[r].seeds) : ~Crossing(runs[r], id1, id2)

\* a forest at rest in which a line that was stopped as expired lies
\* across a line that passed its checks
FinalForestWithCrossing ==
    \E r \in DOMAIN runs : \E id1, id2 \in Ids(runs[r].seeds) :
        /\ runs[r].tick >= 1
        /\ ~isActive(runs[r])
        /\ Crossing(runs[r], id1, id2)
        /\ ~LineAt(runs[r].seeds, id1).active /\ LineAt(runs[r].seeds, id1).expired
        /\ ~Unchecked(LineAt(runs[r].seeds, id2))

\* ------------------------------------------------------------------------
\* C19: after generate() has been called again on a model, isActive() is
\* true exactly when some line of the new forest is active.
\* ------------------------------------------------------------------------
SecondForestAloneCounts ==
    \A r \in DOMAIN runs : runs[r].generateCalls = 2 =>
        (isActive(runs[r]) <=> ActiveLines(runs[r]) # {})

\* ------------------------------------------------------------------------
\* C20: once pause() was called on a running render and neither resume()
\* nor startNew() followed, that render runs at most one more update, and
\* after that update none of its callbacks remains scheduled.
\* ------------------------------------------------------------------------
PauseStopsAfterOneUpdate ==
    page.paused =>
        /\ page.updates <= 1
        /\ page.updates = 1 => ~Scheduled(page, page.render)
====
